---- MODULE Spec2Model ----
(***************************************************************************)
(* GitHistory (src/components/git.tsx): a React widget that polls the      *)
(* GitHub API for the most recent commits of every repository of an        *)
(* account, merges them, and shows them in a closable panel.               *)
(*                                                                         *)
(* The model is a state machine over the component's useState cells, the   *)
(* two setInterval timers, the pending setTimeout callbacks, the document  *)
(* (body overflow, keydown listener) and the poll cycles in flight.  One   *)
(* action is one run-to-completion step of the event loop: a timer         *)
(* callback, the continuation of an await, or a DOM event handler.         *)
(* Time is counted in milliseconds.                                        *)
(***************************************************************************)
EXTENDS Integers, Sequences, FiniteSets, TLC

VARIABLES
    mounted,        \* the component is mounted (its effects have run, no cleanup yet)
    hasOnClose,     \* the onClose prop was supplied by the parent
    now,            \* wall clock, ms since mount
    commits,        \* useState<Commit[]>
    loading,        \* useState(true)
    error,          \* useState<string | null>
    isRefreshing,   \* useState(false) (never read by the render)
    isBlinking,     \* useState(false)
    lastUpdated,    \* useState(new Date())
    isFullscreen,   \* useState(false)
    isMinimized,    \* useState(false)
    bodyOverflow,   \* document.body.style.overflow
    keyListener,    \* the keydown listener is attached to the document
    blinkInterval,  \* next deadline of the 3 s interval, or Cleared
    fetchInterval,  \* next deadline of the 5 min interval, or Cleared
    timeouts,       \* pending setTimeout callbacks
    cycles,         \* the poll cycles started so far, in start order
    lastEvent,      \* the DOM event dispatched in the last step, if any
    onCloseCalls    \* how many times the handlers of lastEvent called onClose

vars == << mounted, hasOnClose, now, commits, loading, error, isRefreshing,
           isBlinking, lastUpdated, isFullscreen, isMinimized, bodyOverflow,
           keyListener, blinkInterval, fetchInterval, timeouts, cycles,
           lastEvent, onCloseCalls >>

widgetState == << commits, loading, error, isRefreshing, isBlinking, lastUpdated >>
viewFlags   == << isFullscreen, isMinimized >>

-----------------------------------------------------------------------------
(* Program constants *)

CommitLimit     == 25          \* .slice(0, 25)
BlinkOffDelay   == 1000        \* setTimeout(() => setIsBlinking(false), 1000)
RefreshOffDelay == 1000        \* setTimeout(() => setIsRefreshing(false), 1000)
FetchPeriod     == 300000      \* setInterval(fetchCommits, 300000)
BlinkPeriodOfFetch == FetchPeriod   \* the blink interval given the period of the fetch interval
BlinkPeriod     == 3000        \* setInterval(..., 3000)
ErrorMessage    == "Failed to load commit history"

(* Bounds of the model *)

MaxSeconds == 301              \* the clock stops after this many seconds

NoError  == "null"             \* the null of useState<string | null>
Cleared  == -1                 \* an interval after clearInterval
TimeStep == BlinkOffDelay      \* every deadline is a multiple of the shortest delay

-----------------------------------------------------------------------------
(* Dates.  An ISO-8601 UTC date string is the record of its fields; new     *)
(* Date(s).getTime() is computed from the civil date.  Timestamps are kept  *)
(* in seconds (all modelled dates have a zero millisecond part) so that     *)
(* they fit TLC's integers.                                                 *)

IsoDate(y, m, d) == [year |-> y, month |-> m, day |-> d]

DaysFromCivil(y, m, d) ==
    LET yy  == IF m <= 2 THEN y - 1 ELSE y
        era == yy \div 400
        yoe == yy - era * 400
        mp  == IF m > 2 THEN m - 3 ELSE m + 9
        doy == (153 * mp + 2) \div 5 + d - 1
        doe == yoe * 365 + yoe \div 4 - yoe \div 100 + doy
    IN  era * 146097 + doe - 719468

NewDate(s) == DaysFromCivil(s.year, s.month, s.day) * 86400

GetTime(timestamp) == timestamp

-----------------------------------------------------------------------------
(* The GitHub API as the widget sees it: what a fetch may produce.          *)

Repos == << "a/x", "b/y" >>

\* An element of the repository list: a repository object, or null.
GitHubRepo(name) == [isNull |-> FALSE, full_name |-> name]
JsonNull         == [isNull |-> TRUE, full_name |-> "null"]

GitHubCommit(sha, message, date) ==
    [sha |-> sha, commit |-> [message |-> message, author |-> [date |-> date]]]

\* Day k of the period: 1..31 is January 2024, 32.. is February 2024.
DayOf(k) == IF k <= 31 THEN IsoDate(2024, 1, k) ELSE IsoDate(2024, 2, k - 31)

\* a/x: a full page of 25 commits, oldest first, one a day from 11 Jan to 4 Feb.
BodyA25 == [i \in 1..25 |->
             GitHubCommit("a" \o ToString(i), "fix " \o ToString(i), DayOf(10 + i))]
\* b/y: 3 commits, newest first; the last two share a timestamp, and all three
\* share theirs with commits of BodyA25.
BodyB3 == << GitHubCommit("b1", "feat", DayOf(30)),
             GitHubCommit("b2", "docs", DayOf(12)),
             GitHubCommit("b3", "test", DayOf(12)) >>

\* A JSON value: an array with its items, an object, or a body json() rejects.
JsonArray(items) == [type |-> "array", items |-> items]
JsonObject       == [type |-> "object", items |-> << >>]
JsonInvalid      == [type |-> "invalid", items |-> << >>]

\* What await fetch(...) yields: a rejection, or a response with its ok flag.
FetchRejected   == [net |-> "throw", ok |-> FALSE]
FetchResolved(ok) == [net |-> "resolve", ok |-> ok]

FetchResults == { FetchRejected, FetchResolved(TRUE), FetchResolved(FALSE) }

\* What await response.json() yields for /user/repos.
RepoListBodies ==
    { JsonInvalid,
      JsonObject,
      JsonArray(<< >>),
      JsonArray(<< GitHubRepo(Repos[1]), GitHubRepo(Repos[2]) >>),
      JsonArray(<< JsonNull, GitHubRepo(Repos[2]) >>) }

CommitBodies(name) ==
    IF name = Repos[1] THEN { BodyA25 } ELSE { BodyB3 }

\* What await commitsResponse.json() yields for the commits of repository name.
CommitJsons(name) ==
    { JsonInvalid, JsonObject } \cup { JsonArray(b) : b \in CommitBodies(name) }

-----------------------------------------------------------------------------
(* fetchCommits, the pure parts *)

\* The paths of the inner try after the response that end in console.warn and
\* return []: the status is not ok, json() rejects, or .map is no function.
CommitsFail(ok, json) ==
    \/ ~ok
    \/ json.type # "array"

\* The inner try from the response on: the commits of the repository, or [].
MapCommits(repo, ok, json) ==
    IF CommitsFail(ok, json) THEN << >>
    ELSE [i \in 1..Len(json.items) |->
            [id        |-> json.items[i].sha,
             message   |-> json.items[i].commit.message,
             repo      |-> repo.full_name,
             timestamp |-> NewDate(json.items[i].commit.author.date)]]

\* allCommits.flat()
RECURSIVE Flat(_)
Flat(lists) ==
    IF lists = << >> THEN << >> ELSE Head(lists) \o Flat(Tail(lists))

\* Compare with its operands exchanged: oldest first.
CompareAscending(a, b) == GetTime(a.timestamp) - GetTime(b.timestamp)

\* (a, b) => b.timestamp.getTime() - a.timestamp.getTime()
Compare(a, b) == GetTime(b.timestamp) - GetTime(a.timestamp)

\* Array.prototype.sort is stable: x goes after every element it does not precede.
RECURSIVE InsertSorted(_, _)
InsertSorted(x, sorted) ==
    IF sorted = << >> THEN << x >>
    ELSE IF Compare(Head(sorted), x) <= 0
         THEN << Head(sorted) >> \o InsertSorted(x, Tail(sorted))
         ELSE << x >> \o sorted

RECURSIVE SortCommits(_)
SortCommits(list) ==
    IF list = << >> THEN << >>
    ELSE InsertSorted(list[Len(list)], SortCommits(SubSeq(list, 1, Len(list) - 1)))

\* .slice(0, 25)
Slice(list) ==
    IF Len(list) <= CommitLimit THEN list ELSE SubSeq(list, 1, CommitLimit)

FlattenedCommits(allCommits) == Slice(SortCommits(Flat(allCommits)))

\* The response of /user/repos throws into the outer catch: fetch rejected, or
\* the status is not ok.
RepoListResponseFails(head) ==
    \/ head.net = "throw"
    \/ ~head.ok

\* RepoListJsonFails without the Array.isArray check.
RepoListJsonFailsNoShapeCheck(json) == json.type = "invalid"

\* The body of /user/repos throws into the outer catch: json() rejected, or the
\* value is no array.
RepoListJsonFails(json) ==
    \/ json.type = "invalid"
    \/ json.type # "array"

-----------------------------------------------------------------------------
(* React: a state setter called after the unmount changes nothing.          *)

SetState(old, new) == IF mounted THEN new ELSE old

\* The branch of the render that is taken.
View ==
    IF ~mounted THEN "unmounted"
    ELSE IF loading THEN "loading"
    ELSE IF error # NoError THEN "error"
    ELSE IF isMinimized THEN "minimized"
    ELSE "normal"

\* commits.map(...) of the content area: only the normal view renders entries.
RenderedCommits == IF View = "normal" THEN commits ELSE << >>

-----------------------------------------------------------------------------
(* Poll cycles *)

\* One element of repos.map(...): the promise of one repository's commits, up
\* to the first await of the callback.  For a null element the template of the
\* URL throws, and so does the template of the console.warn in the catch: the
\* promise is rejected and no request is sent.
Request(repo) ==
    [repo |-> repo, state |-> IF repo.isNull THEN "rejected" ELSE "pending",
     ok |-> FALSE, result |-> << >>]

\* One call of fetchCommits: where it stands, and the promises it awaits.
\* warnings counts the console.warn calls of the cycle.
NewCycle == [stage |-> "listing", requests |-> << >>, warnings |-> 0, outcome |-> "none"]

Timeout(kind, id, delay) == [kind |-> kind, id |-> id, at |-> now + delay]

Init ==
    /\ mounted = TRUE
    /\ hasOnClose \in BOOLEAN
    /\ now = 0
    /\ commits = << >>
    /\ loading = TRUE
    /\ error = NoError
    /\ isRefreshing = TRUE              \* fetchCommits() of the mount effect
    /\ isBlinking = FALSE
    /\ lastUpdated = 0
    /\ isFullscreen = FALSE
    /\ isMinimized = FALSE
    /\ bodyOverflow = "auto"
    /\ keyListener = TRUE
    /\ blinkInterval = BlinkPeriod
    /\ fetchInterval = FetchPeriod
    /\ timeouts = {}
    /\ cycles = << NewCycle >>
    /\ lastEvent = "none"
    /\ onCloseCalls = 0

AllSettled(c) ==
    \A i \in 1..Len(cycles[c].requests) : cycles[c].requests[i].state = "settled"

AllCommits(c) == [i \in 1..Len(cycles[c].requests) |-> cycles[c].requests[i].result]

\* The continuation of a resolved Promise.all is a microtask: it runs before
\* any timer callback, response or DOM event is handled.
JoinPending ==
    \E c \in 1..Len(cycles) : cycles[c].stage = "fanout" /\ AllSettled(c)

\* A step that is not the dispatch of a DOM event.
NoUserEvent == lastEvent' = "none" /\ onCloseCalls' = 0

\* fetchCommits up to its first await, called by the 5 min interval.
FetchTick ==
    /\ ~JoinPending
    /\ fetchInterval = now
    /\ fetchInterval' = now + FetchPeriod
    /\ isRefreshing' = SetState(isRefreshing, TRUE)
    /\ cycles' = Append(cycles, NewCycle)
    /\ UNCHANGED << mounted, hasOnClose, now, commits, loading, error, isBlinking,
                    lastUpdated, bodyOverflow, keyListener, blinkInterval, timeouts >>
    /\ UNCHANGED viewFlags
    /\ NoUserEvent

\* The outer catch and the line after it.
CycleFailed(c, requests) ==
    /\ error' = SetState(error, ErrorMessage)
    /\ loading' = SetState(loading, FALSE)
    /\ timeouts' = timeouts \cup { Timeout("refreshOff", c, RefreshOffDelay) }
    /\ cycles' = [cycles EXCEPT ![c] = [@ EXCEPT !.stage = "done", !.outcome = "error",
                                                 !.requests = requests]]
    /\ UNCHANGED commits

\* fetchCommits from the response of /user/repos to await response.json().
ReceiveRepoListResponse(c, head) ==
    /\ ~JoinPending
    /\ cycles[c].stage = "listing"
    /\ IF RepoListResponseFails(head)
       THEN CycleFailed(c, << >>)
       ELSE /\ cycles' = [cycles EXCEPT ![c].stage = "listJson"]
            /\ UNCHANGED << commits, loading, error, timeouts >>
    /\ UNCHANGED << mounted, hasOnClose, now, isRefreshing, isBlinking, lastUpdated,
                    bodyOverflow, keyListener, blinkInterval, fetchInterval >>
    /\ UNCHANGED viewFlags
    /\ NoUserEvent

\* repos.map(...): every callback runs to its first await.
MapRepos(json) == [i \in 1..Len(json.items) |-> Request(json.items[i])]

\* Promise.all rejects as soon as one of its promises is rejected.
AnyRejected(requests) ==
    \E i \in 1..Len(requests) : requests[i].state = "rejected"

\* The repository list is an array: one callback per element, then Promise.all.
FanOut(c, json) ==
    IF AnyRejected(MapRepos(json))
    THEN CycleFailed(c, MapRepos(json))
    ELSE /\ cycles' = [cycles EXCEPT ![c] =
                          [@ EXCEPT !.stage = "fanout", !.requests = MapRepos(json)]]
         /\ UNCHANGED << commits, loading, error, timeouts >>

\* fetchCommits from the body of /user/repos to await Promise.all.
ReceiveRepoListJson(c, json) ==
    /\ ~JoinPending
    /\ cycles[c].stage = "listJson"
    /\ IF RepoListJsonFails(json) THEN CycleFailed(c, << >>) ELSE FanOut(c, json)
    /\ UNCHANGED << mounted, hasOnClose, now, isRefreshing, isBlinking, lastUpdated,
                    bodyOverflow, keyListener, blinkInterval, fetchInterval >>
    /\ UNCHANGED viewFlags
    /\ NoUserEvent

\* The callback of repos.map for one repository, from the response of its fetch
\* to await commitsResponse.json(); a rejected fetch goes to the catch.
ReceiveCommitsResponse(c, i, head) ==
    /\ ~JoinPending
    /\ cycles[c].requests[i].state = "pending"
    /\ cycles' = [cycles EXCEPT
          ![c].requests[i] =
              IF head.net = "throw"
              THEN [@ EXCEPT !.state = "settled", !.result = << >>]
              ELSE [@ EXCEPT !.state = "json", !.ok = head.ok],
          ![c].warnings = IF head.net = "throw" THEN @ + 1 ELSE @]
    /\ UNCHANGED << mounted, hasOnClose, now, widgetState, bodyOverflow, keyListener,
                    blinkInterval, fetchInterval, timeouts >>
    /\ UNCHANGED viewFlags
    /\ NoUserEvent

\* The callback of repos.map for one repository, from the body of its response
\* to its return.
ReceiveCommitsJson(c, i, json) ==
    /\ ~JoinPending
    /\ cycles[c].requests[i].state = "json"
    /\ cycles' = [cycles EXCEPT
          ![c].requests[i] =
              [@ EXCEPT !.state = "settled",
                        !.result = MapCommits(cycles[c].requests[i].repo,
                                              cycles[c].requests[i].ok, json)],
          ![c].warnings = IF CommitsFail(cycles[c].requests[i].ok, json)
                          THEN @ + 1 ELSE @]
    /\ UNCHANGED << mounted, hasOnClose, now, widgetState, bodyOverflow, keyListener,
                    blinkInterval, fetchInterval, timeouts >>
    /\ UNCHANGED viewFlags
    /\ NoUserEvent

\* fetchCommits after Promise.all: merge, store, and schedule the refresh reset.
JoinCommits(c) ==
    /\ cycles[c].stage = "fanout"
    /\ AllSettled(c)
    /\ commits' = SetState(commits, FlattenedCommits(AllCommits(c)))
    /\ loading' = SetState(loading, FALSE)
    /\ timeouts' = timeouts \cup { Timeout("refreshOff", c, RefreshOffDelay) }
    /\ cycles' = [cycles EXCEPT ![c] = [@ EXCEPT !.stage = "done", !.requests = << >>,
                                                 !.outcome = "success"]]
    /\ UNCHANGED << mounted, hasOnClose, now, error, isRefreshing, isBlinking,
                    lastUpdated, bodyOverflow, keyListener, blinkInterval, fetchInterval >>
    /\ UNCHANGED viewFlags
    /\ NoUserEvent

\* The callback of the 3 s interval.
BlinkTick ==
    /\ ~JoinPending
    /\ blinkInterval = now
    /\ blinkInterval' = now + BlinkPeriod
    /\ isBlinking' = SetState(isBlinking, TRUE)
    /\ lastUpdated' = SetState(lastUpdated, now)
    /\ timeouts' = timeouts \cup { Timeout("blinkOff", 0, BlinkOffDelay) }
    /\ UNCHANGED << mounted, hasOnClose, now, commits, loading, error, isRefreshing,
                    bodyOverflow, keyListener, fetchInterval, cycles >>
    /\ UNCHANGED viewFlags
    /\ NoUserEvent

\* A setTimeout callback that is due.
FireTimeout(t) ==
    /\ ~JoinPending
    /\ t \in timeouts
    /\ t.at = now
    /\ timeouts' = timeouts \ { t }
    /\ IF t.kind = "blinkOff"
       THEN isBlinking' = SetState(isBlinking, FALSE) /\ UNCHANGED isRefreshing
       ELSE isRefreshing' = SetState(isRefreshing, FALSE) /\ UNCHANGED isBlinking
    /\ UNCHANGED << mounted, hasOnClose, now, commits, loading, error, lastUpdated,
                    bodyOverflow, keyListener, blinkInterval, fetchInterval, cycles >>
    /\ UNCHANGED viewFlags
    /\ NoUserEvent

\* Time passes once every callback that is due has run.  The clock is followed
\* only while a timer is armed or a callback is pending.
AdvanceTime ==
    /\ ~JoinPending
    /\ now + TimeStep <= MaxSeconds * 1000
    /\ blinkInterval # Cleared \/ fetchInterval # Cleared \/ timeouts # {}
    /\ blinkInterval # now
    /\ fetchInterval # now
    /\ \A t \in timeouts : t.at # now
    /\ now' = now + TimeStep
    /\ UNCHANGED << mounted, hasOnClose, widgetState, bodyOverflow, keyListener,
                    blinkInterval, fetchInterval, timeouts, cycles >>
    /\ UNCHANGED viewFlags
    /\ NoUserEvent

-----------------------------------------------------------------------------
(* DOM events *)

\* handleClose
HandleClose == IF hasOnClose THEN 1 ELSE 0

\* handleClickOutside
HandleClickOutside(target, currentTarget) ==
    IF hasOnClose /\ target = currentTarget THEN 1 ELSE 0

\* handleEscapeKey
HandleEscapeKey(key) ==
    IF key = "Escape" THEN (IF hasOnClose THEN 1 ELSE 0) ELSE 0

\* The onClick of the backdrop element: the loading and the normal view set it,
\* the error view does not.
BackdropOnClick(target) ==
    IF View \in { "loading", "normal" } THEN HandleClickOutside(target, "backdrop") ELSE 0

UserEvent(event, calls) ==
    /\ ~JoinPending
    /\ lastEvent' = event
    /\ onCloseCalls' = calls
    /\ UNCHANGED << mounted, hasOnClose, now, widgetState, bodyOverflow, keyListener,
                    blinkInterval, fetchInterval, timeouts, cycles >>

\* keydown on the document.
PressKey(key) ==
    /\ keyListener
    /\ UserEvent(key, HandleEscapeKey(key))
    /\ UNCHANGED viewFlags

\* A click on the x button: its own handler, then the backdrop's as the click bubbles.
ClickCloseButton ==
    /\ View \in { "loading", "normal" }
    /\ UserEvent("closeButton", HandleClose + BackdropOnClick("closeButton"))
    /\ UNCHANGED viewFlags

\* A click on the backdrop itself, outside the panel.
ClickBackdrop ==
    /\ View \in { "loading", "error", "normal" }
    /\ UserEvent("backdrop", BackdropOnClick("backdrop"))
    /\ UNCHANGED viewFlags

\* The effect of [isFullscreen]: its cleanup, then its body.
FullscreenEffect(fullscreen) == IF fullscreen THEN "hidden" ELSE "auto"

\* A click on the fullscreen button of the normal view (disabled while loading).
ClickFullscreenButton ==
    /\ ~JoinPending
    /\ View = "normal"
    /\ isFullscreen' = ~isFullscreen
    /\ bodyOverflow' = FullscreenEffect(~isFullscreen)
    /\ lastEvent' = "fullscreenButton"
    /\ onCloseCalls' = BackdropOnClick("fullscreenButton")
    /\ UNCHANGED << mounted, hasOnClose, now, widgetState, keyListener, isMinimized,
                    blinkInterval, fetchInterval, timeouts, cycles >>

\* A click on the minimized chip.  No handler of the component sets isMinimized,
\* so the chip is never rendered and this step is not part of Next.
ClickMinimized ==
    /\ ~JoinPending
    /\ View = "minimized"
    /\ isMinimized' = FALSE
    /\ lastEvent' = "minimized"
    /\ onCloseCalls' = 0
    /\ UNCHANGED << mounted, hasOnClose, now, widgetState, bodyOverflow, keyListener,
                    isFullscreen, blinkInterval, fetchInterval, timeouts, cycles >>

\* Unmount with a cleanup that leaves the blink interval running.
UnmountKeepsBlinking ==
    /\ ~JoinPending
    /\ mounted
    /\ mounted' = FALSE
    /\ fetchInterval' = Cleared
    /\ bodyOverflow' = "auto"
    /\ keyListener' = FALSE
    /\ UNCHANGED << hasOnClose, now, widgetState, blinkInterval, timeouts, cycles >>
    /\ UNCHANGED viewFlags
    /\ NoUserEvent

\* The cleanups of the three effects.
Unmount ==
    /\ ~JoinPending
    /\ mounted
    /\ mounted' = FALSE
    /\ fetchInterval' = Cleared
    /\ blinkInterval' = Cleared
    /\ bodyOverflow' = "auto"
    /\ keyListener' = FALSE
    /\ UNCHANGED << hasOnClose, now, widgetState, timeouts, cycles >>
    /\ UNCHANGED viewFlags
    /\ NoUserEvent

\* The keys the user presses: Escape, and one key that is not Escape.
Keys == { "Escape", "Enter" }

UserAction ==
    \/ \E key \in Keys : PressKey(key)
    \/ ClickCloseButton
    \/ ClickBackdrop
    \/ ClickFullscreenButton

PollStep ==
    \/ FetchTick
    \/ \E c \in 1..Len(cycles) : \E head \in FetchResults : ReceiveRepoListResponse(c, head)
    \/ \E c \in 1..Len(cycles) : \E json \in RepoListBodies : ReceiveRepoListJson(c, json)
    \/ \E c \in 1..Len(cycles) : \E i \in 1..Len(cycles[c].requests) :
          \E head \in FetchResults : ReceiveCommitsResponse(c, i, head)
    \/ \E c \in 1..Len(cycles) : \E i \in 1..Len(cycles[c].requests) :
          \E json \in CommitJsons(cycles[c].requests[i].repo.full_name) :
             ReceiveCommitsJson(c, i, json)
    \/ \E c \in 1..Len(cycles) : JoinCommits(c)

TimerStep ==
    \/ BlinkTick
    \/ \E t \in timeouts : FireTimeout(t)
    \/ AdvanceTime

Next == PollStep \/ TimerStep \/ UserAction \/ Unmount

Spec == Init /\ [][Next]_vars

-----------------------------------------------------------------------------
(* Properties *)

\* The timestamps of list never increase from one entry to the next.
Descending(list) ==
    \A i \in 1..Len(list) - 1 : list[i].timestamp >= list[i + 1].timestamp

\* Each timestamp of list is greater than the next one.
StrictlyDescending(list) ==
    \A i \in 1..Len(list) - 1 : list[i].timestamp > list[i + 1].timestamp

Occurrences(x, list) == Cardinality({ i \in 1..Len(list) : list[i] = x })

Entries(list) == { list[i] : i \in 1..Len(list) }

\* list holds the CommitLimit most recent entries of flat, most recent first:
\* it is as long as the limit allows, in descending order, made of entries of
\* flat, and no entry left out is more recent than one that was kept.
MostRecentOf(list, flat) ==
    /\ Len(list) = (IF Len(flat) <= 25 THEN Len(flat) ELSE 25)
    /\ Descending(list)
    /\ \A x \in Entries(list) : Occurrences(x, list) <= Occurrences(x, flat)
    /\ \A x \in Entries(flat) :
          Occurrences(x, flat) > Occurrences(x, list)
             => \A y \in Entries(list) : y.timestamp >= x.timestamp

CycleSucceeded(c) == c \in 1..Len(cycles) /\ cycles[c].outcome = "success"
CycleFailedAt(c)  == c \in 1..Len(cycles) /\ cycles[c].outcome = "error"

\* C1 (as stated): after a successful poll cycle the stored commit list has at
\* most 25 entries and is sorted strictly descending by timestamp, ties included.
C1_StrictlyDescending ==
    Len(commits) <= 25 /\ StrictlyDescending(commits)

\* C1 (amended): a successful poll cycle stores the 25 most recent entries of the
\* flattened per-repository results, at most 25 of them, in descending order of
\* timestamp; entries with equal timestamps may follow one another.
C1_MostRecentFirst ==
    [][\A c \in 1..Len(cycles) :
          cycles[c].stage = "fanout" /\ JoinCommits(c) /\ mounted
             => /\ Len(commits') <= 25
                /\ MostRecentOf(commits', Flat(AllCommits(c)))]_vars

\* C1 witness: a cycle over 28 commits has stored 25, two of them with one timestamp.
C1_Witness ==
    /\ CycleSucceeded(1)
    /\ Len(commits) = 25
    /\ \E i \in 1..24 : commits[i].timestamp = commits[i + 1].timestamp

\* What the commit call of repository name contributes once its response (ok
\* flag) and the body of the response are in: nothing when the call failed, else
\* one entry per commit of the body.
Contribution(name, ok, json) ==
    IF ~ok \/ json.type # "array"
    THEN << >>
    ELSE [k \in 1..Len(json.items) |->
            [id        |-> json.items[k].sha,
             message   |-> json.items[k].commit.message,
             repo      |-> name,
             timestamp |-> NewDate(json.items[k].commit.author.date)]]

\* No step of a commit call touches what the widget shows: a call that fails
\* contributes no commit, a call that succeeds contributes its commits with
\* their sha, message, timestamp and repository, and the cycle whose calls have
\* all ended stores the merge of the contributions and leaves the error as it was.
CommitCallsTolerated ==
    /\ \A c \in 1..Len(cycles) : \A i \in 1..Len(cycles[c].requests) :
          /\ cycles[c].requests[i].state \in { "pending", "json" }
          /\ cycles'[c].requests[i].state # cycles[c].requests[i].state
          =>
          /\ \A head \in FetchResults :
                ReceiveCommitsResponse(c, i, head)
                   => /\ UNCHANGED << commits, loading, error >>
                      /\ cycles'[c].outcome = cycles[c].outcome
                      /\ head.net = "throw"
                           => /\ cycles'[c].requests[i].state = "settled"
                              /\ cycles'[c].requests[i].result = << >>
          /\ \A json \in CommitJsons(cycles[c].requests[i].repo.full_name) :
                ReceiveCommitsJson(c, i, json)
                   => /\ UNCHANGED << commits, loading, error >>
                      /\ cycles'[c].outcome = cycles[c].outcome
                      /\ cycles'[c].requests[i].result
                           = Contribution(cycles[c].requests[i].repo.full_name,
                                          cycles[c].requests[i].ok, json)
    /\ \A c \in 1..Len(cycles) :
          cycles[c].stage = "fanout" /\ JoinCommits(c) /\ mounted
             => /\ error' = error
                /\ cycles'[c].outcome = "success"
                /\ MostRecentOf(commits', Flat(AllCommits(c)))

\* C2: in a cycle whose repository list arrives as a sequence, one commit call
\* is made per element and no failure of such a call (an exception, a
\* non-success status, an unusable body) puts the widget in the error state: the
\* failed call contributes no commit and the stored list is the merge of the
\* commits of the calls that succeeded.  Each call runs up to its first await
\* inside the step that receives the list, so a call that throws there has
\* failed in that step.
C2_PartialFailureTolerated ==
    [][/\ CommitCallsTolerated
       /\ \A c \in 1..Len(cycles) : \A json \in RepoListBodies :
             /\ cycles[c].stage = "listJson"
             /\ ReceiveRepoListJson(c, json)
             /\ json.type = "array"
             => /\ error' = error /\ cycles'[c].outcome = "none"
                /\ Len(cycles'[c].requests) = Len(json.items)
                /\ \A k \in 1..Len(json.items) :
                      /\ cycles'[c].requests[k].repo = json.items[k]
                      /\ \/ cycles'[c].requests[k].state = "pending"
                         \/ /\ cycles'[c].requests[k].state = "settled"
                            /\ cycles'[c].requests[k].result = << >>]_vars

\* C3: a repository-list call that throws, answers with a non-success status or
\* with a payload that is no sequence issues no commit request and leaves a
\* mounted widget in the error view with the static message and no entry rendered.
C3_ListFailureIsFatal ==
    [][\A c \in 1..Len(cycles) :
          cycles[c].stage \in { "listing", "listJson" } =>
          /\ \A head \in FetchResults :
                /\ ReceiveRepoListResponse(c, head)
                /\ head.net = "throw" \/ ~head.ok
                => /\ cycles'[c].requests = << >>
                   /\ cycles'[c].outcome = "error"
                   /\ mounted => /\ View' = "error"
                                 /\ error' = "Failed to load commit history"
                                 /\ RenderedCommits' = << >>
          /\ \A head \in FetchResults :
                ReceiveRepoListResponse(c, head) => cycles'[c].requests = << >>
          /\ \A json \in RepoListBodies :
                /\ ReceiveRepoListJson(c, json)
                /\ json.type # "array"
                => /\ cycles'[c].requests = << >>
                   /\ cycles'[c].outcome = "error"
                   /\ mounted => /\ View' = "error"
                                 /\ error' = "Failed to load commit history"
                                 /\ RenderedCommits' = << >>]_vars

\* C3 witness: the first cycle put commits on display, the second one failed
\* at its repository list.
C3_Witness ==
    /\ CycleSucceeded(1)
    /\ CycleFailedAt(2)
    /\ cycles[2].requests = << >>
    /\ commits # << >>
    /\ View = "error"

\* C4: a poll cycle that succeeds on a mounted widget clears the error, so the
\* widget is not in the error view afterwards.
C4_SuccessClearsError ==
    [][\A c \in 1..Len(cycles) :
          JoinCommits(c) /\ mounted => error' = NoError /\ View' # "error"]_vars

\* C5: with a close callback supplied, an Escape key press, a click on the close
\* button and a click on the backdrop each call it exactly once.
C5_CloseOncePerEvent ==
    hasOnClose /\ lastEvent \in { "Escape", "closeButton", "backdrop" }
       => onCloseCalls = 1

\* The panel is drawn with the fullscreen geometry.
DisplayedFullscreen == View \in { "loading", "normal" } /\ isFullscreen

\* C6: the document scroll lock is on exactly when the widget is mounted and
\* displayed fullscreen.
C6_ScrollLockIffFullscreen ==
    (bodyOverflow = "hidden") <=> (mounted /\ DisplayedFullscreen)

\* C7: from the normal view a user action reaches the minimized view.
C7_MinimizeReachable ==
    View = "normal" => ENABLED ((UserAction \/ ClickMinimized) /\ isMinimized')

\* C8: while mounted the 3 s timer ticks on time whatever the poll cycles do; a
\* tick turns the indicator on and sets the label to the current time, changes
\* neither the commit list nor the loading flag nor the error, and the indicator
\* is off again 1 s later.
C8_BlinkCadence ==
    /\ [](mounted => /\ lastUpdated <= now /\ now <= lastUpdated + 3000
                     /\ blinkInterval = lastUpdated + 3000
                     /\ isBlinking => lastUpdated > 0 /\ now <= lastUpdated + 1000
                     /\ ~isBlinking /\ lastUpdated > 0 => now >= lastUpdated + 1000)
    /\ [][BlinkTick /\ mounted
            => /\ isBlinking' /\ lastUpdated' = now
               /\ now = lastUpdated + 3000
               /\ UNCHANGED << commits, loading, error >>]_vars

\* C8 witness: the indicator is on after a tick that followed a failed cycle.
C8_Witness ==
    /\ mounted /\ isBlinking /\ lastUpdated >= 6000
    /\ CycleFailedAt(1)

\* C9: after the unmount no poll cycle and no tick starts, and neither the
\* cycles in flight nor the pending timeouts write the widget's state.
C9_NothingAfterUnmount ==
    [][~mounted
         => /\ UNCHANGED << commits, loading, error, isBlinking, isRefreshing,
                            lastUpdated >>
            /\ Len(cycles') = Len(cycles)
            /\ ~BlinkTick /\ ~FetchTick]_vars

\* C9 witness: a cycle in flight at the unmount ran to its end, commit requests
\* included, and the widget still shows the state it had at the unmount.
C9_Witness ==
    /\ ~mounted
    /\ CycleSucceeded(1)
    /\ cycles[1].warnings = 1
    /\ loading /\ commits = << >>

\* C10: a cycle that ends after a cycle started later has succeeded does not
\* replace the list that the later cycle stored.
C10_NewerNotOverwritten ==
    [][\A c \in 1..Len(cycles) :
          /\ JoinCommits(c) /\ mounted
          /\ \E d \in c + 1..Len(cycles) : cycles[d].outcome = "success"
          => commits' = commits]_vars

====
